---------------------------- MODULE Spec2Model ----------------------------
(***************************************************************************)
(* Tempo x Jira utilisation extractor (src/tempo.py) as a state machine.   *)
(*                                                                         *)
(* One run of the script is modelled from the module-level configuration   *)
(* check to the two output files.  The remote services (Tempo /worklogs,   *)
(* Jira /project, /user and the per-issue resource) are the environment:   *)
(* every request either fails with an HTTP error or answers from the       *)
(* fixed tables below.                                                     *)
(*                                                                         *)
(* Conventions.  An optional value (pandas NA / NaN / NaT, Python None) is *)
(* NA == <<>>, a present value v is Some(v) == <<v>>.  Strings that the    *)
(* code inspects character by character (labels, project keys) are         *)
(* sequences of one-character strings.  Dates are day numbers counted from *)
(* 1970-01-01.  hours and billable_hours are float64 values, computed   *)
(* step by step with the rounding of IEEE 754 double arithmetic; util_pct  *)
(* is its number of tenths of a percent.                                   *)
(*                                                                         *)
(* The module also holds one run of the fiscal-year cleanup                *)
(* (src/clean_fy.py) against a bucket listing and a table catalogue, and   *)
(* normalize_scope of the two IAM inspection scripts                       *)
(* (src/findpermission.py, src/service_acct_fin_permisson.py).  Object     *)
(* names, prefixes and scope ids are plain strings.                        *)
(***************************************************************************)
EXTENDS Integers, Sequences, FiniteSets, TLC

\* ---------------------------------------------------------------- bounds
\* largest total number of work-logs the Tempo side holds
MaxCount == 3
\* largest page size paged_get is called with
MaxPage == 3
\* longest list of raw records handed to flatten on its own
MaxRaw == 2
\* longest list of labels handed to label_to_buckets on its own
MaxLabels == 2
\* most lines the 'Proceed?' prompt reads
MaxAnswers == 2

\* --------------------------------------------------------------- helpers
NA == << >>
Some(v) == << v >>
IsNA(x) == x = NA
Val(x) == x[1]

Range(s) == { s[i] : i \in 1..Len(s) }

RECURSIVE SeqsUpTo(_, _)
\* all sequences over S of length at most n
SeqsUpTo(S, n) ==
    IF n = 0 THEN { << >> }
    ELSE LET shorter == SeqsUpTo(S, n - 1)
         IN  shorter \cup { Append(s, x) : s \in shorter, x \in S }

\* s.find(sub) >= 0 on character sequences (Python's `sub in s`)
Contains(sub, s) ==
    \E i \in 1..(Len(s) - Len(sub) + 1) : SubSeq(s, i, i + Len(sub) - 1) = sub

UpperChars == << "A", "B", "C", "D", "E", "F", "G", "H", "I", "J", "K", "L", "M",
                 "N", "O", "P", "Q", "R", "S", "T", "U", "V", "W", "X", "Y", "Z" >>
LowerChars == << "a", "b", "c", "d", "e", "f", "g", "h", "i", "j", "k", "l", "m",
                 "n", "o", "p", "q", "r", "s", "t", "u", "v", "w", "x", "y", "z" >>

\* str.lower() of one character
LowerChar(c) ==
    IF \E i \in 1..Len(UpperChars) : UpperChars[i] = c
    THEN LowerChars[CHOOSE i \in 1..Len(UpperChars) : UpperChars[i] = c]
    ELSE c

\* str.lower()
Lower(s) == [ i \in 1..Len(s) |-> LowerChar(s[i]) ]

\* days from 1970-01-01 to the civil date y-m-d (proleptic Gregorian), as
\* pd.to_datetime reads an ISO date
DaysFromCivil(y, m, d) ==
    LET yy  == IF m <= 2 THEN y - 1 ELSE y
        era == yy \div 400
        yoe == yy - era * 400
        mp  == (m + 9) % 12
        doy == (153 * mp + 2) \div 5 + d - 1
        doe == yoe * 365 + yoe \div 4 - yoe \div 100 + doy
    IN  era * 146097 + doe - 719468

\* ------------------------------------------------------ float64 values
\* A float64 is [neg, m, e]: the number (-1)^neg * m * 2^e.  The natural m
\* is written in base 2^12, least significant limb first, and is odd, which
\* makes the form unique; a rounded value has at most 53 bits.  0.0 is
\* [FALSE, << >>, 0].  Limb lists hold naturals of any size, so no step
\* overflows and every result is the correctly rounded one, as in IEEE 754
\* round-to-nearest-even.
F64Bits == 53
LimbBits == 12

\* 2^s for 0 <= s < LimbBits
Pow2(s) == << 1, 2, 4, 8, 16, 32, 64, 128, 256, 512, 1024, 2048 >>[s + 1]

LimbBase == 2 * Pow2(LimbBits - 1)

RECURSIVE NatLimbs(_)
NatLimbs(n) ==
    IF n = 0 THEN << >> ELSE << n % LimbBase >> \o NatLimbs(n \div LimbBase)

RECURSIVE LimbsNat(_)
LimbsNat(a) == IF a = << >> THEN 0 ELSE a[1] + LimbBase * LimbsNat(Tail(a))

LimbAt(a, i) == IF i <= Len(a) THEN a[i] ELSE 0

RECURSIVE TrimLimbs(_)
\* without leading (most significant) zero limbs
TrimLimbs(a) ==
    IF a # << >> /\ a[Len(a)] = 0 THEN TrimLimbs(SubSeq(a, 1, Len(a) - 1))
    ELSE a

RECURSIVE AddCarry(_, _, _, _)
AddCarry(a, b, i, c) ==
    IF i > Len(a) /\ i > Len(b) THEN (IF c = 0 THEN << >> ELSE << c >>)
    ELSE LET s == LimbAt(a, i) + LimbAt(b, i) + c
         IN  << s % LimbBase >> \o AddCarry(a, b, i + 1, s \div LimbBase)

AddLimbs(a, b) == AddCarry(a, b, 1, 0)

RECURSIVE SubBorrow(_, _, _, _)
SubBorrow(a, b, i, c) ==
    IF i > Len(a) THEN << >>
    ELSE LET s == LimbAt(a, i) - LimbAt(b, i) - c
         IN  << s % LimbBase >> \o SubBorrow(a, b, i + 1, IF s < 0 THEN 1 ELSE 0)

\* a - b for a >= b
SubLimbs(a, b) == TrimLimbs(SubBorrow(a, b, 1, 0))

\* a < b, both without leading zero limbs
LessLimbs(a, b) ==
    \/ Len(a) < Len(b)
    \/ /\ Len(a) = Len(b)
       /\ \E i \in 1..Len(a) :
            /\ a[i] < b[i]
            /\ \A j \in (i + 1)..Len(a) : a[j] = b[j]

RECURSIVE MulCarry(_, _, _, _)
MulCarry(a, c, i, carry) ==
    IF i > Len(a) THEN NatLimbs(carry)
    ELSE LET s == a[i] * c + carry
         IN  << s % LimbBase >> \o MulCarry(a, c, i + 1, s \div LimbBase)

\* a * c for a natural c <= LimbBase
MulLimbs(a, c) == TrimLimbs(MulCarry(a, c, 1, 0))

RECURSIVE DivStep(_, _, _, _)
\* long division of the limbs i..1 of a by d, rem carried in from above
DivStep(a, d, i, rem) ==
    IF i = 0 THEN [ q |-> << >>, r |-> rem ]
    ELSE LET cur  == LimbBase * rem + a[i]
             rest == DivStep(a, d, i - 1, cur % d)
         IN  [ q |-> Append(rest.q, cur \div d), r |-> rest.r ]

\* quotient and remainder of a by a natural 0 < d <= LimbBase
DivLimbs(a, d) ==
    LET qr == DivStep(a, d, Len(a), 0)
    IN  [ q |-> TrimLimbs(qr.q), r |-> qr.r ]

\* a * 2^k
ShlLimbs(a, k) ==
    IF a = << >> THEN << >>
    ELSE [ i \in 1..(k \div LimbBits) |-> 0 ] \o MulLimbs(a, Pow2(k % LimbBits))

\* a \div 2^k
ShrLimbs(a, k) ==
    IF k \div LimbBits >= Len(a) THEN << >>
    ELSE DivLimbs(SubSeq(a, k \div LimbBits + 1, Len(a)), Pow2(k % LimbBits)).q

\* the number of bits of a (no leading zero limbs)
BitLen(a) ==
    IF a = << >> THEN 0
    ELSE LimbBits * (Len(a) - 1)
           + (CHOOSE n \in 1..LimbBits :
                /\ a[Len(a)] >= Pow2(n - 1)
                /\ n = LimbBits \/ a[Len(a)] < Pow2(n))

IsOdd(a) == a # << >> /\ a[1] % 2 = 1

\* the number of low zero bits of a # 0
LowZeros(a) ==
    LET i == CHOOSE j \in 1..Len(a) : a[j] # 0 /\ \A h \in 1..(j - 1) : a[h] = 0
        z == CHOOSE s \in 0..(LimbBits - 1) :
               /\ a[i] % Pow2(s) = 0
               /\ (a[i] \div Pow2(s)) % 2 = 1
    IN  LimbBits * (i - 1) + z

F64Zero == [ neg |-> FALSE, m |-> << >>, e |-> 0 ]

\* the unique form of (-1)^neg * a * 2^e
Canon(neg, a, e) ==
    LET t == TrimLimbs(a)
    IN  IF t = << >> THEN F64Zero
        ELSE [ neg |-> neg, m |-> ShrLimbs(t, LowZeros(t)), e |-> e + LowZeros(t) ]

\* x without its k lowest bits, rounded to nearest, ties to even (x.m odd,
\* k >= 1): the bits dropped are above one half exactly when the highest of
\* them is set and, k = 1 apart, never just one half
DropBits(x, k) ==
    LET r1 == ShrLimbs(x.m, k - 1)
        q  == ShrLimbs(r1, 1)
        up == IsOdd(r1) /\ (k >= 2 \/ IsOdd(q))
    IN  IF up THEN AddLimbs(q, << 1 >>) ELSE q

\* round to nearest, ties to even, to F64Bits significant bits
Round53(x) ==
    LET drop == BitLen(x.m) - F64Bits
    IN  IF drop <= 0 THEN x ELSE Canon(x.neg, DropBits(x, drop), x.e + drop)

F64Neg(x) == IF x.m = << >> THEN x ELSE [ x EXCEPT !.neg = ~x.neg ]

\* the exact sum of two values (as many bits as it takes)
ExactAdd(x, y) ==
    IF x.m = << >> THEN y
    ELSE IF y.m = << >> THEN x
    ELSE LET e0 == IF x.e <= y.e THEN x.e ELSE y.e
             a  == ShlLimbs(x.m, x.e - e0)
             b  == ShlLimbs(y.m, y.e - e0)
         IN  IF x.neg = y.neg THEN Canon(x.neg, AddLimbs(a, b), e0)
             ELSE IF a = b THEN F64Zero
             ELSE IF LessLimbs(b, a) THEN Canon(x.neg, SubLimbs(a, b), e0)
             ELSE Canon(y.neg, SubLimbs(b, a), e0)

\* float64 + and -
F64Add(x, y) == Round53(ExactAdd(x, y))
F64Sub(x, y) == Round53(ExactAdd(x, F64Neg(y)))

\* float64 x * c for a natural c <= LimbBase
F64Mul(x, c) == Round53(Canon(x.neg, MulLimbs(x.m, c), x.e))

\* bits a dividend is extended by, so that its quotient by a divisor up to
\* LimbBase has more than F64Bits + 2 bits
DivGuard == 6 * LimbBits

\* float64 x / d for a natural 0 < d <= LimbBase: the quotient of the
\* extended dividend, with one more low bit set when a remainder is left,
\* rounded
F64Div(x, d) ==
    LET qr == DivLimbs(ShlLimbs(x.m, DivGuard), d)
    IN  IF qr.r = 0 THEN Round53(Canon(x.neg, qr.q, x.e - DivGuard))
        ELSE Round53(Canon(x.neg, AddLimbs(MulLimbs(qr.q, 2), << 1 >>),
                           x.e - DivGuard - 1))

\* float(n) for a natural n
F64FromNat(n) == Canon(FALSE, NatLimbs(n), 0)

\* numpy.rint as an integer: the nearest integer, ties to even
F64Rint(x) ==
    LET mag == IF x.e >= 0 THEN LimbsNat(ShlLimbs(x.m, x.e))
               ELSE LimbsNat(DropBits(x, 0 - x.e))
    IN  IF x.m = << >> THEN 0 ELSE IF x.neg THEN 0 - mag ELSE mag

\* ------------------------------------------------- configuration (0 ENV)
REQ == << "TEMPO_TOKEN", "JIRA_EMAIL", "JIRA_API_TOKEN", "JIRA_SITE" >>

\* an environment variable is unset, set to the empty string, or set
EnvValues == { "unset", "empty", "set" }

\* os.getenv(v) is falsy: None or ""
NotGetenvStrict(env, v) == env[v] = "unset"
NotGetenv(env, v) == env[v] # "set"

\* missing = [v for v in REQ if not os.getenv(v)]
Missing(env) == SelectSeq(REQ, LAMBDA v : NotGetenv(env, v))

AllSet == [ v \in Range(REQ) |-> "set" ]

\* ------------------------------------------------------ remote fixtures
URL_A == "https://jira/rest/api/3/issue/10001"
URL_B == "https://jira/rest/api/3/issue/10002"
URL_C == "https://jira/rest/api/3/issue/10003"
\* a second address of issue 10001 (the resource under the older API version)
URL_D == "https://jira/rest/api/2/issue/10001"

K_FIN == << "F", "I", "N" >>
K_CPA == << "C", "P", "A" >>

L_Meeting     == << "M", "e", "e", "t", "i", "n", "g" >>
L_BAU         == << "B", "A", "U" >>
L_bau         == << "b", "a", "u" >>
L_Enhancement == << "E", "n", "h", "a", "n", "c", "e", "m", "e", "n", "t" >>
L_audit       == << "a", "u", "d", "i", "t" >>
L_holiday     == << "h", "o", "l", "i", "d", "a", "y" >>
L_holidays    == << "h", "o", "l", "i", "d", "a", "y", "s" >>
L_Vacation    == << "V", "a", "c", "a", "t", "i", "o", "n" >>
L_misc        == << "m", "i", "s", "c" >>

\* what the Jira issue resource answers for each issue URL when it answers
IssueDB ==
    [ u \in { URL_A, URL_B, URL_C, URL_D } |->
        CASE u \in { URL_A, URL_D } ->
                          [ id |-> 10001, key |-> "FIN-1", project_key |-> K_FIN,
                            project_name |-> "TransUnion PeopleSoft",
                            issue_type |-> "Task",
                            labels |-> << L_Meeting, L_BAU >>,
                            components |-> << "GL" >> ]
          [] u = URL_B -> [ id |-> 10002, key |-> "FIN-2", project_key |-> K_FIN,
                            project_name |-> "TransUnion PeopleSoft",
                            issue_type |-> "Story",
                            labels |-> << L_Enhancement >>,
                            components |-> << >> ]
          [] OTHER     -> [ id |-> 10003, key |-> "CPA-1", project_key |-> K_CPA,
                            project_name |-> "Finance Misc",
                            issue_type |-> "Task",
                            labels |-> << L_holidays >>,
                            components |-> << "AP", "AR" >> ] ]

\* what the Jira /user endpoint answers for an accountId when it answers with
\* a displayName
UserDB == [ a \in { "acc-bob", "acc-eve" } |->
              IF a = "acc-bob" THEN "Bob B" ELSE "Eve E" ]

\* The i-th work-log held by Tempo, already in json_normalize's dotted column
\* names.  A record is a function from the columns it carries to their values.
RawA(i) == [ f \in { "author.displayName", "author.accountId", "startDate",
                     "timeSpentSeconds", "billableSeconds", "issue.self",
                     "issue.id", "tempoWorklogId", "description" } |->
             CASE f = "author.displayName" -> "Alice A"
               [] f = "author.accountId"   -> "acc-ali"
               [] f = "startDate"          -> [ y |-> 2024, m |-> 6, d |-> 12 ]
               [] f = "timeSpentSeconds"   -> 3600
               [] f = "billableSeconds"    -> 3600
               [] f = "issue.self"         -> URL_A
               [] f = "issue.id"           -> 10001
               [] f = "tempoWorklogId"     -> i
               [] OTHER                    -> "review" ]

RawB(i, secs, day) ==
           [ f \in { "author.accountId", "startDate", "timeSpentSeconds",
                     "issue.self", "issue.id", "tempoWorklogId" } |->
             CASE f = "author.accountId"   -> "acc-bob"
               [] f = "startDate"          -> [ y |-> 2024, m |-> 6, d |-> day ]
               [] f = "timeSpentSeconds"   -> secs
               [] f = "issue.self"         -> URL_B
               [] f = "issue.id"           -> 10002
               [] OTHER                    -> i ]

RawC(i) == [ f \in { "author.displayName", "startDate", "timeSpentSeconds",
                     "issue.self", "issue.id", "tempoWorklogId" } |->
             CASE f = "author.displayName" -> "Alice A"
               [] f = "startDate"          -> [ y |-> 2024, m |-> 6, d |-> 17 ]
               [] f = "timeSpentSeconds"   -> 2520
               [] f = "issue.self"         -> URL_C
               [] f = "issue.id"           -> 10003
               [] OTHER                    -> i ]

Worklog(i) ==
    CASE i % 4 = 1 -> RawA(i)
      [] i % 4 = 2 -> RawB(i, 7200, 10)
      [] i % 4 = 3 -> RawB(i, 10800, 14)
      [] OTHER     -> RawC(i)

\* the first n work-logs
Worklogs(n) == [ i \in 1..n |-> Worklog(i) ]

\* ----------------------------------------------------------------- state
VARIABLES
    pc,           \* where the run stands
    failed_at,    \* the pc at which the run exited or raised ("" while running)
    environ,      \* os.environ on REQ
    team_filter,  \* os.getenv("TEAM_FILTER"): NA or Some(characters)
    exit_status,  \* NA while running, Some(process exit status) afterwards
    exit_msg,     \* what sys.exit printed: [kind, names]
    reqs,         \* every HTTP request issued so far, in order
    count,        \* metadata.count the Tempo side reports (its total)
    page,         \* paged_get's page size
    offset,       \* paged_get's offset
    logs,         \* the records paged_get has yielded so far
    raw,          \* the list flatten was called with
    row_i,        \* the row df.apply(_resolve_user) is at
    users,        \* the users resolved so far, one per row
    name_cache,   \* lru_cache of account_id_to_name: entries [key, val]
    df_flat,      \* NA, or Some(the frame flatten returned)
    url_i,        \* the url meta_from_urls is at
    meta_rows,    \* rows meta_from_urls has appended
    merged,       \* NA, or Some(enriched rows enrich returned)
    util,         \* NA, or Some(set of utilisation rows enrich returned)
    excel_engine, \* "" or the engine picked
    xlsx,         \* utilisation_matrix.xlsx: "absent" | "partial" | "written"
    parquet,      \* enriched_worklogs.parquet: "absent" | "partial" | "written"
    labels_in,    \* argument of label_to_buckets when run on its own
    buckets_out,  \* NA, or Some(its result)
    args,         \* clean_fy: the parsed command line
    answers,      \* clean_fy: the lines input() has returned so far
    bucket,       \* clean_fy: names of the objects the bucket holds
    blobs,        \* clean_fy: the objects delete_objects has still to delete
    gcs_calls,    \* clean_fy: every blob.delete() issued, in order
    tables,       \* clean_fy: the tables main has still to go through
    bq_jobs,      \* clean_fy: every BigQuery job issued, in order
    bq_rows,      \* clean_fy: table -> fiscal years it holds rows of
    scope_in,     \* normalize_scope: the scope id given and what it names
    scope_out     \* NA, or Some([script, scope])

vars == << pc, failed_at, environ, team_filter, exit_status, exit_msg, reqs,
           count, page, offset, logs, raw, row_i, users, name_cache, df_flat,
           url_i, meta_rows, merged, util, excel_engine, xlsx, parquet,
           labels_in, buckets_out, args, answers, bucket, blobs, gcs_calls,
           tables, bq_jobs, bq_rows, scope_in, scope_out >>

ctlVars   == << pc, failed_at, exit_status, exit_msg >>
cfgVars   == << environ, team_filter, count, page >>
pageVars  == << offset, logs >>
flatVars  == << raw, row_i, users, name_cache, df_flat >>
metaVars  == << url_i, meta_rows >>
enrVars   == << merged, util >>
outVars   == << excel_engine, xlsx, parquet >>
labelVars == << labels_in, buckets_out >>
fyVars    == << args, answers, bucket, blobs, gcs_calls, tables, bq_jobs,
                bq_rows >>
scopeVars == << scope_in, scope_out >>
tempoVars == << cfgVars, reqs, pageVars, flatVars, metaVars, enrVars, outVars,
                labelVars >>

\* a request as logged: endpoint, page offset (-1 off /worklogs), key (url or
\* accountId or project key, "" on /worklogs), and whether it answered 2xx
Req(ep, off, key, ok) == [ ep |-> ep, off |-> off, key |-> key, ok |-> ok ]

\* an uncaught exception: the interpreter prints the traceback, status 1
Raise(at) ==
    /\ pc' = "raised"
    /\ failed_at' = at
    /\ exit_status' = Some(1)
    /\ exit_msg' = [ kind |-> "traceback", names |-> << >> ]

\* sys.exit(<str>): the message goes to stderr, status 1
SysExit(at, kind, names) ==
    /\ pc' = "exited"
    /\ failed_at' = at
    /\ exit_status' = Some(1)
    /\ exit_msg' = [ kind |-> kind, names |-> names ]

Goto(next) ==
    /\ pc' = next
    /\ UNCHANGED << failed_at, exit_status, exit_msg >>

\* ------------------------------------------------ 0 ENV (module import)
\* lines 34-39: load_dotenv(), then exit when a required setting is falsy
ImportModule ==
    /\ pc = "import"
    /\ IF Missing(environ) # << >>
       THEN SysExit("import", "missing env vars", Missing(environ))
       ELSE Goto("main")
    /\ UNCHANGED << cfgVars, reqs, pageVars, flatVars, metaVars, enrVars,
                    outVars, labelVars, fyVars, scopeVars >>

\* ----------------------------------------------------------- 7 MAIN (1)
\* the command lines tried: sys.argv[1:]
ArgvSpace == { << >>, << "webhook" >>, << "webhook", "events.json" >>,
               << "FIN" >>, << "FIN", "30" >>, << "FIN", "soon" >> }

\* int(s) succeeds on the decimal literals among the arguments tried
IntParses(s) == s \in { "7", "30" }

\* lines 214-227 up to the first call that reads the outside world
Main ==
    /\ pc = "main"
    /\ \E argv \in ArgvSpace :
         IF Len(argv) < 1
         THEN SysExit("main", "usage", << >>)
         ELSE IF argv[1] = "webhook"
         THEN IF Len(argv) # 2
              THEN SysExit("main", "webhook file", << >>)
              ELSE Goto("webhook")
         ELSE IF Len(argv) > 1 /\ ~IntParses(argv[2])
              THEN Raise("main")
              ELSE Goto("project")
    /\ UNCHANGED << cfgVars, reqs, pageVars, flatVars, metaVars, enrVars,
                    outVars, labelVars, fyVars, scopeVars >>

\* a webhook envelope {eventId, eventType, payload}
Envelope(i) ==
    [ k \in { "eventId", "eventType", "payload" } |->
        CASE k = "payload" -> Worklog(i)
          [] k = "eventId" -> i
          [] OTHER         -> "worklog_created" ]

\* e.get("payload", e)
Payload(e) == IF "payload" \in DOMAIN e THEN e["payload"] ELSE e

\* lines 222-224: read and parse the events file; a file that is not JSON
\* raises, a single object is treated as a list of one
ReadWebhook ==
    /\ pc = "webhook"
    /\ \/ /\ Raise("webhook")
          /\ UNCHANGED raw
       \/ /\ \E n \in 0..MaxCount, wrapped \in BOOLEAN :
               LET events == [ i \in 1..n |->
                                 IF wrapped THEN Envelope(i) ELSE Worklog(i) ]
               IN  raw' = [ i \in 1..n |-> Payload(events[i]) ]
          /\ Goto("flatten")
    /\ UNCHANGED << cfgVars, reqs, pageVars, row_i, users, name_cache, df_flat,
                    metaVars, enrVars, outVars, labelVars, fyVars, scopeVars >>

\* ---------------------------------------------------- 1 TEMPO HELPERS
\* lines 63-65: one GET /project/<key>; raise_for_status() on a non-2xx
JiraProjectId ==
    /\ pc = "project"
    /\ \E ok \in BOOLEAN :
         /\ reqs' = Append(reqs, Req("project", -1, "FIN", ok))
         /\ IF ok THEN Goto("paging") ELSE Raise("project")
    /\ UNCHANGED << cfgVars, pageVars, flatVars, metaVars, enrVars, outVars,
                    labelVars, fyVars, scopeVars >>

Min(a, b) == IF a <= b THEN a ELSE b

\* the 2xx answer of GET /worklogs?offset=off&limit=lim when Tempo holds n
\* work-logs and reports that total as metadata.count
TempoPage(off, lim, n) ==
    [ results  |-> SubSeq(Worklogs(n), off + 1, Min(off + lim, n)),
      metadata |-> [ count |-> n ] ]

\* line 58
PageStopStrict(off, lim, cnt) == off + lim > cnt
PageStop(off, lim, cnt) == off + lim >= cnt

\* lines 53-60, one turn of the loop: request, raise on a non-2xx, yield the
\* results, stop or advance.  pull_worklogs (line 71) collects what is
\* yielded into a list and hands it to flatten (line 227).
PagedGetRetry ==
    /\ pc = "paging"
    /\ \E ok \in BOOLEAN :
         /\ reqs' = Append(reqs, Req("worklogs", offset, "", ok))
         /\ IF ~ok
            THEN /\ Goto("paging")
                 /\ UNCHANGED << pageVars, raw >>
            ELSE LET data == TempoPage(offset, page, count)
                 IN  /\ logs' = logs \o data.results
                     /\ IF PageStop(offset, page, data.metadata.count)
                        THEN /\ raw' = logs'
                             /\ Goto("flatten")
                             /\ UNCHANGED offset
                        ELSE /\ offset' = offset + page
                             /\ Goto("paging")
                             /\ UNCHANGED raw
    /\ Len(reqs) < 2 * MaxCount + 2
    /\ UNCHANGED << cfgVars, row_i, users, name_cache, df_flat, metaVars,
                    enrVars, outVars, labelVars, fyVars, scopeVars >>

PagedGet ==
    /\ pc = "paging"
    /\ \E ok \in BOOLEAN :
         /\ reqs' = Append(reqs, Req("worklogs", offset, "", ok))
         /\ IF ~ok
            THEN /\ Raise("paging")
                 /\ UNCHANGED << pageVars, raw >>
            ELSE LET data == TempoPage(offset, page, count)
                 IN  /\ logs' = logs \o data.results
                     /\ IF PageStop(offset, page, data.metadata.count)
                        THEN /\ raw' = logs'
                             /\ Goto("flatten")
                             /\ UNCHANGED offset
                        ELSE /\ offset' = offset + page
                             /\ Goto("paging")
                             /\ UNCHANGED raw
    /\ UNCHANGED << cfgVars, row_i, users, name_cache, df_flat, metaVars,
                    enrVars, outVars, labelVars, fyVars, scopeVars >>

\* ------------------------------------------- 2 ACCOUNT ID -> NAME
\* what GET /user?accountId=acc can answer: an HTTP error, a body without
\* displayName, an empty displayName, or the account's displayName
\* an accountId Jira does not know is answered 404
UserAnswers(acc) ==
    IF acc \in DOMAIN UserDB
    THEN { [ ok |-> FALSE, name |-> NA ], [ ok |-> TRUE, name |-> NA ],
           [ ok |-> TRUE, name |-> Some("") ],
           [ ok |-> TRUE, name |-> Some(UserDB[acc]) ] }
    ELSE { [ ok |-> FALSE, name |-> NA ] }

\* lines 168-185 (this definition replaces the one of lines 78-84): the value
\* account_id_to_name returns on a cache miss; HTTPError is caught -> None
LookupResult(ans) == IF ans.ok THEN ans.name ELSE NA

\* line 170: @lru_cache(maxsize=1024)
LruMaxSize == 1024

\* The cache is the list of its entries [key, val], least recently used
\* first.  A None result is an entry like any other.
CacheHas(cache, k) == \E i \in 1..Len(cache) : cache[i].key = k

CacheGet(cache, k) ==
    cache[CHOOSE i \in 1..Len(cache) : cache[i].key = k].val

\* a hit makes the entry the most recently used
CacheHit(cache, k) ==
    SelectSeq(cache, LAMBDA e : e.key # k)
        \o << [ key |-> k, val |-> CacheGet(cache, k) ] >>

\* a miss stores the result; a full cache first drops its least recently
\* used entry
CacheMiss(cache, k, v) ==
    Append(IF Len(cache) >= LruMaxSize THEN Tail(cache) ELSE cache,
           [ key |-> k, val |-> v ])

\* ------------------------------------------------ 3 FLATTEN TEMPO JSON
\* lines 87-97, in declaration order
COL_MAP == << [ src |-> "author.displayName", col |-> "user" ],
              [ src |-> "author.accountId",   col |-> "user_id" ],
              [ src |-> "startDate",          col |-> "date" ],
              [ src |-> "timeSpentSeconds",   col |-> "sec" ],
              [ src |-> "billableSeconds",    col |-> "billable_sec" ],
              [ src |-> "issue.self",         col |-> "issue_url" ],
              [ src |-> "issue.id",           col |-> "issue_id" ],
              [ src |-> "tempoWorklogId",     col |-> "worklog_id" ],
              [ src |-> "description",        col |-> "desc" ] >>

\* line 98
EXPECT == [ i \in 1..Len(COL_MAP) |-> COL_MAP[i].col ]

SrcOf(c) == (CHOOSE i \in 1..Len(COL_MAP) : COL_MAP[i].col = c)

\* lines 101-103: the renamed frame's cell of record r in column c; a column
\* the record does not carry holds NA
Cell(r, c) ==
    LET src == COL_MAP[SrcOf(c)].src
    IN  IF src \in DOMAIN r THEN Some(r[src]) ELSE NA

\* str(x).strip() is empty, on the display names tried
IsBlank(s) == s \in { "", " ", "  " }

\* Python truthiness of the lookup's result (`if name:`)
Truthy(name) == ~IsNA(name) /\ Val(name) # ""

\* line 106
HasDisplayName(r) == ~IsNA(Cell(r, "user")) /\ ~IsBlank(Val(Cell(r, "user")))

\* line 108
HasAccountId(r) == ~IsNA(Cell(r, "user_id"))

\* lines 105-113 once the lookup (if any) has answered `name`
ResolveUserNoRawId(r, name) ==
    IF HasDisplayName(r) THEN Val(Cell(r, "user"))
    ELSE IF HasAccountId(r) /\ Truthy(name) THEN Val(name)
    ELSE "Unknown"

ResolveUser(r, name) ==
    IF HasDisplayName(r) THEN Val(Cell(r, "user"))
    ELSE IF HasAccountId(r)
         THEN IF Truthy(name) THEN Val(name) ELSE Val(Cell(r, "user_id"))
    ELSE "Unknown"

\* line 115, one row of df.apply(_resolve_user, axis = 1): the display name,
\* else the cached or freshly requested name of the account, else the raw
\* identifier, else "Unknown"
FlattenRow ==
    /\ pc = "flatten"
    /\ row_i <= Len(raw)
    /\ LET r   == raw[row_i]
           acc == Val(Cell(r, "user_id"))
       IN  IF HasDisplayName(r) \/ ~HasAccountId(r)
           THEN /\ users' = Append(users, ResolveUser(r, NA))
                /\ UNCHANGED << name_cache, reqs >>
           ELSE IF CacheHas(name_cache, acc)
           THEN /\ users' = Append(users, ResolveUser(r, CacheGet(name_cache, acc)))
                /\ name_cache' = CacheHit(name_cache, acc)
                /\ UNCHANGED reqs
           ELSE \E ans \in UserAnswers(acc) :
                  /\ reqs' = Append(reqs, Req("user", -1, acc, ans.ok))
                  /\ name_cache' = CacheMiss(name_cache, acc, LookupResult(ans))
                  /\ users' = Append(users, ResolveUser(r, LookupResult(ans)))
    /\ row_i' = row_i + 1
    /\ Goto("flatten")
    /\ UNCHANGED << cfgVars, pageVars, raw, df_flat, metaVars, enrVars,
                    outVars, labelVars, fyVars, scopeVars >>

\* line 116: the columns left after df.drop(columns = "user_id")
DropUserId(cols) == SelectSeq(cols, LAMBDA c : c # "user_id")

\* lines 120-121: keep + ["hours", "billable_hours"]
FlatColumns ==
    LET have == Range(DropUserId(EXPECT))
        keep == SelectSeq(EXPECT, LAMBDA c : c \in have)
    IN  keep \o << "hours", "billable_hours" >>

\* lines 117-118: seconds / 3600, a float64 division
Div3600(x) == IF IsNA(x) THEN NA ELSE Some(F64Div(F64FromNat(Val(x)), 3600))

\* line 119: pd.to_datetime
ToDatetime(x) ==
    IF IsNA(x) THEN NA ELSE Some(DaysFromCivil(Val(x).y, Val(x).m, Val(x).d))

\* the value of column c in the flattened row of record r
FlatCell(r, user, c) ==
    CASE c = "user"           -> user
      [] c = "date"           -> ToDatetime(Cell(r, "date"))
      [] c = "hours"          -> Div3600(Cell(r, "sec"))
      [] c = "billable_hours" -> Div3600(Cell(r, "billable_sec"))
      [] OTHER                -> Cell(r, c)

\* lines 100-121 as a whole: the frame flatten returns for the records and
\* their resolved users
FlatFrameDropIncomplete(records, resolved) ==
    LET full == SelectSeq([ i \in 1..Len(records) |-> i ],
                          LAMBDA i : \A k \in 1..Len(COL_MAP) :
                                        COL_MAP[k].src \in DOMAIN records[i])
    IN  [ columns |-> FlatColumns,
          rows    |-> [ k \in 1..Len(full) |->
                          [ c \in Range(FlatColumns) |->
                              FlatCell(records[full[k]], resolved[full[k]], c) ] ] ]

FlatFrame(records, resolved) ==
    [ columns |-> FlatColumns,
      rows    |-> [ i \in 1..Len(records) |->
                      [ c \in Range(FlatColumns) |->
                          FlatCell(records[i], resolved[i], c) ] ] ]

\* lines 116-121: every row resolved, flatten returns.  On an empty list
\* df.apply gives an empty result (pandas 1.5 and later) and the frame has
\* the same columns and no row.
FlattenDone ==
    /\ pc = "flatten"
    /\ row_i > Len(raw)
    /\ df_flat' = Some(FlatFrame(raw, users))
    /\ Goto("meta")
    /\ UNCHANGED << cfgVars, reqs, pageVars, raw, row_i, users, name_cache,
                    metaVars, enrVars, outVars, labelVars, fyVars, scopeVars >>

\* ------------------------------------------ 4 JIRA META VIA issue.self
\* line 190: df_flat["issue_url"].dropna().unique().tolist(), in order of
\* first appearance
UniqueUrls(rows) ==
    LET first == SelectSeq([ i \in 1..Len(rows) |-> i ],
                           LAMBDA i : /\ ~IsNA(rows[i]["issue_url"])
                                      /\ \A j \in 1..(i - 1) :
                                           rows[j]["issue_url"] # rows[i]["issue_url"])
    IN  [ k \in 1..Len(first) |-> Val(rows[first[k]]["issue_url"]) ]

Urls == IF IsNA(df_flat) THEN << >> ELSE UniqueUrls(Val(df_flat).rows)

\* lines 131-141: the row appended for the answer d
MetaRow(d) ==
    [ issue_id     |-> Some(d.id),
      issue        |-> Some(d.key),
      project_key  |-> Some(d.project_key),
      project_name |-> Some(d.project_name),
      issue_type   |-> Some(d.issue_type),
      labels       |-> Some(d.labels),
      components   |-> Some(d.components) ]

\* the metadata columns of a row the left join found no match for
NoMeta ==
    [ issue |-> NA, project_key |-> NA, project_name |-> NA,
      issue_type |-> NA, labels |-> NA, components |-> NA ]

\* lines 127-143, one turn of the loop: request the url; on HTTPError
\* continue with the next url, else append its row
MetaFromUrls ==
    /\ pc = "meta"
    /\ url_i <= Len(Urls)
    /\ \E ok \in BOOLEAN :
         /\ reqs' = Append(reqs, Req("issue", -1, Urls[url_i], ok))
         /\ meta_rows' = IF ok THEN Append(meta_rows, MetaRow(IssueDB[Urls[url_i]]))
                         ELSE meta_rows
    /\ url_i' = url_i + 1
    /\ Goto("meta")
    /\ UNCHANGED << cfgVars, pageVars, flatVars, enrVars, outVars, labelVars, fyVars, scopeVars >>

\* ----------------------------------------------- 5 LABEL BUCKET RULES
Unknown2 == << "Unknown", "Unknown" >>

c_enhancement == << "e", "n", "h", "a", "n", "c", "e", "m", "e", "n", "t" >>
c_bau         == << "b", "a", "u" >>
c_audit       == << "a", "u", "d", "i", "t" >>
c_meeting     == << "m", "e", "e", "t", "i", "n", "g" >>
c_holiday     == << "h", "o", "l", "i", "d", "a", "y" >>
c_vacation    == << "v", "a", "c", "a", "t", "i", "o", "n" >>

\* lines 152-162 on the set of labels lset
Cascade(lset) ==
    IF \E l \in lset : Contains(c_enhancement, l) THEN << "Enhancement", "." >>
    ELSE IF \E l \in lset : Contains(c_bau, l) THEN << "BAU", "." >>
    ELSE IF \E l \in lset : Contains(c_audit, l) THEN << "Admin", "Audit" >>
    ELSE IF \E l \in lset : Contains(c_meeting, l) THEN << "Admin", "Meeting" >>
    ELSE IF \E l \in lset : l \in { c_holiday, c_vacation }
         THEN << "Vacation", "Vacation" >>
    ELSE Unknown2

\* lines 148-162 without the lower-casing of line 151
label_to_buckets_nolower(labels) ==
    IF IsNA(labels) THEN Unknown2 ELSE Cascade(Range(Val(labels)))

\* lines 148-162; labels is NA (not a list) or Some(list of labels)
label_to_buckets(labels) ==
    IF IsNA(labels) THEN Unknown2
    ELSE Cascade({ Lower(l) : l \in Range(Val(labels)) })

\* line 164
AREA_MAP ==
    [ n \in { "TransUnion PeopleSoft", "Coupa", "OneStream" } |->
        CASE n = "TransUnion PeopleSoft" -> "PeopleSoft"
          [] n = "Coupa"                 -> "Coupa"
          [] OTHER                       -> "OneStream/PS" ]

\* ------------------------------------------------ 6 ENRICH & UTILISE
\* weekly capacity in hours, line 209
WeeklyCapacity == 40

\* the metadata columns of a meta row (all but the join key)
MetaColumns(m) ==
    [ issue |-> m.issue, project_key |-> m.project_key,
      project_name |-> m.project_name, issue_type |-> m.issue_type,
      labels |-> m.labels, components |-> m.components ]

\* the rows a left join on issue_id gives for one left row: one per matching
\* meta row, in meta order, or the row with empty metadata when none matches
JoinRow(row, meta) ==
    LET hits == SelectSeq(meta, LAMBDA m : m.issue_id = row["issue_id"])
    IN  IF hits = << >> THEN << row @@ NoMeta >>
        ELSE [ k \in 1..Len(hits) |-> row @@ MetaColumns(hits[k]) ]

RECURSIVE LeftMerge(_, _)
\* line 193: df_flat.merge(meta, on = "issue_id", how = "left")
LeftMerge(rows, meta) ==
    IF rows = << >> THEN << >>
    ELSE JoinRow(Head(rows), meta) \o LeftMerge(Tail(rows), meta)

\* lines 196-198: the rows kept by TEAM_FILTER (a plain substring here);
\* a row without project_key is not kept (na = False)
TeamFilter(rows, tf) ==
    IF IsNA(tf) \/ Val(tf) = << >> THEN rows
    ELSE SelectSeq(rows, LAMBDA r : /\ ~IsNA(r["project_key"])
                                    /\ Contains(Val(tf), Val(r["project_key"])))

\* line 200
Module(components) ==
    IF ~IsNA(components) /\ Val(components) # << >>
    THEN Val(components)[1] ELSE "Unknown"

\* line 201
Area(project_name) ==
    IF ~IsNA(project_name) /\ Val(project_name) \in DOMAIN AREA_MAP
    THEN AREA_MAP[Val(project_name)] ELSE "Unknown"

\* line 203: the Monday that starts the Monday-to-Sunday period holding the
\* day (1970-01-01 was a Thursday)
WeekStartSunday(day) == day - ((day + 4) % 7)
WeekStart(day) == day - ((day + 3) % 7)

\* (every record of the inputs tried through enrich carries a date)
Week(date) == IF IsNA(date) THEN NA ELSE Some(WeekStart(Val(date)))

\* lines 200-203: the derived columns of one merged row
Classify(r) ==
    [ module       |-> Module(r["components"]),
      area         |-> Area(r["project_name"]),
      category     |-> label_to_buckets(r["labels"])[1],
      sub_category |-> label_to_buckets(r["labels"])[2],
      week         |-> Week(r["date"]) ] @@ r

\* the group-by key of an enriched row, line 207
KeyOf(r) ==
    [ area |-> r["area"], project_key |-> r["project_key"],
      module |-> r["module"], category |-> r["category"],
      sub_category |-> r["sub_category"], user |-> r["user"],
      week |-> r["week"] ]

\* groupby(...) leaves out the rows with a missing key column (dropna)
HasKey(r) == ~IsNA(r["project_key"]) /\ ~IsNA(r["week"])

\* the hours of the rows with key k, in frame order; a missing value is
\* skipped
KeyHours(rows, k) ==
    LET idx == SelectSeq([ i \in 1..Len(rows) |-> i ],
                         LAMBDA i : /\ KeyOf(rows[i]) = k
                                    /\ ~IsNA(rows[i]["hours"]))
    IN  [ j \in 1..Len(idx) |-> Val(rows[idx[j]]["hours"]) ]

RECURSIVE KahanSum(_, _, _)
\* the loop of pandas' group sum over the values of one group: float64
\* addition with a running compensation
KahanSum(vals, sumx, compensation) ==
    IF vals = << >> THEN sumx
    ELSE LET y == F64Sub(Head(vals), compensation)
             t == F64Add(sumx, y)
         IN  KahanSum(Tail(vals), t, F64Sub(F64Sub(t, sumx), y))

\* line 207: ["hours"].sum() of the group with key k
GroupSum(rows, k) == KahanSum(KeyHours(rows, k), F64Zero, F64Zero)

\* line 209: (hours / 40 * 100).round(1) in float64, where round(1) is
\* rint(x * 10) / 10; the result is given by its number of tenths
UtilPctTenths(hours) ==
    F64Rint(F64Mul(F64Mul(F64Div(hours, WeeklyCapacity), 100), 10))

UtilRow(rows, k) ==
    [ area |-> k.area, project_key |-> Val(k.project_key), module |-> k.module,
      category |-> k.category, sub_category |-> k.sub_category,
      user |-> k.user, week |-> Val(k.week),
      hours |-> GroupSum(rows, k),
      util_pct |-> UtilPctTenths(GroupSum(rows, k)) ]

\* lines 206-209: one row per key among the rows that have every key column
GroupBy(rows) ==
    { UtilRow(rows, k) :
        k \in { KeyOf(rows[i]) : i \in { j \in 1..Len(rows) : HasKey(rows[j]) } } }

\* lines 193-203: the enriched frame
Enriched(rows, meta, tf) ==
    LET kept == TeamFilter(LeftMerge(rows, meta), tf)
    IN  [ i \in 1..Len(kept) |-> Classify(kept[i]) ]

\* enrich with the parquet snapshot written before it returns
EnrichAndSnapshot ==
    /\ pc = "meta"
    /\ url_i > Len(Urls)
    /\ meta_rows # << >>
    /\ merged' = Some(Enriched(Val(df_flat).rows, meta_rows, team_filter))
    /\ util' = Some(GroupBy(Val(merged')))
    /\ parquet' = "written"
    /\ Goto("engine")
    /\ UNCHANGED << cfgVars, reqs, pageVars, flatVars, metaVars, excel_engine,
                    xlsx, labelVars, fyVars, scopeVars >>

\* lines 191-210 once meta_from_urls has returned.  An empty meta frame has
\* no issue_id column (KeyError, line 191); an empty merged frame makes the
\* two-column assignment of line 202 fail (ValueError).
Enrich ==
    /\ pc = "meta"
    /\ url_i > Len(Urls)
    /\ IF meta_rows = << >>
       THEN /\ Raise("enrich")
            /\ UNCHANGED enrVars
       ELSE LET out == Enriched(Val(df_flat).rows, meta_rows, team_filter)
            IN  IF out = << >>
                THEN /\ Raise("enrich")
                     /\ UNCHANGED enrVars
                ELSE /\ merged' = Some(out)
                     /\ util' = Some(GroupBy(out))
                     /\ Goto("engine")
    /\ UNCHANGED << cfgVars, reqs, pageVars, flatVars, metaVars, outVars,
                    labelVars, fyVars, scopeVars >>

\* ----------------------------------------------------------- 7 MAIN (2)
\* line 233
ExcelEngines == << "xlsxwriter", "openpyxl" >>

\* lines 232-241: the first engine that imports, or exit when none does
PickEngine ==
    /\ pc = "engine"
    /\ \E installed \in SUBSET Range(ExcelEngines) :
         LET found == SelectSeq(ExcelEngines, LAMBDA e : e \in installed)
         IN  IF found = << >>
             THEN /\ SysExit("engine", "install excel engine", << >>)
                  /\ UNCHANGED excel_engine
             ELSE /\ excel_engine' = Head(found)
                  /\ Goto("excel")
    /\ UNCHANGED << cfgVars, reqs, pageVars, flatVars, metaVars, enrVars,
                    xlsx, parquet, labelVars, fyVars, scopeVars >>

\* lines 243-259: the workbook.  An error before the writer exists leaves no
\* file; one inside the with block leaves what the writer saves on exit.
WriteExcel ==
    /\ pc = "excel"
    /\ \/ /\ xlsx' = "written"
          /\ Goto("parquet")
       \/ /\ xlsx' \in { "absent", "partial" }
          /\ Raise("excel")
    /\ UNCHANGED << cfgVars, reqs, pageVars, flatVars, metaVars, enrVars,
                    excel_engine, parquet, labelVars, fyVars, scopeVars >>

\* lines 261-262: the parquet snapshot (no parquet engine, or an I/O error,
\* raises), then the run ends with status 0
WriteParquet ==
    /\ pc = "parquet"
    /\ \/ /\ parquet' = "written"
          /\ pc' = "done"
          /\ exit_status' = Some(0)
          /\ UNCHANGED << failed_at, exit_msg >>
       \/ /\ parquet' \in { "absent", "partial" }
          /\ Raise("parquet")
    /\ UNCHANGED << cfgVars, reqs, pageVars, flatVars, metaVars, enrVars,
                    excel_engine, xlsx, labelVars, fyVars, scopeVars >>

\* ------------------------------------------------------- clean_fy.py
\* str.strip(), on lines padded with blanks
RECURSIVE Strip(_)
Strip(s) ==
    IF s = "" THEN ""
    ELSE IF SubSeq(s, 1, 1) = " " THEN Strip(SubSeq(s, 2, Len(s)))
    ELSE IF SubSeq(s, Len(s), Len(s)) = " " THEN Strip(SubSeq(s, 1, Len(s) - 1))
    ELSE s

RECURSIVE StrLower(_)
\* str.lower() of a string
StrLower(s) ==
    IF s = "" THEN ""
    ELSE LowerChar(SubSeq(s, 1, 1)) \o StrLower(SubSeq(s, 2, Len(s)))

\* str.startswith
StartsWith(s, p) == Len(s) >= Len(p) /\ SubSeq(s, 1, Len(p)) = p

\* lines 51 and 53
IsYesOrBlank(ans) == ans \in { "y", "yes", "" }
IsYes(ans) == ans \in { "y", "yes" }
IsNo(ans) == ans \in { "n", "no" }

\* what the user may type at the prompt
StdinLines == { "y", "yes", " Y ", "n", "NO", "", "maybe" }

\* the bucket's objects in the order list_blobs returns them (by name)
BucketListing ==
    << "finsup/AM/FY2015/a.csv",
       "finsup/AM/FY20150/e.csv",
       "finsup/AM/FY2016/a.csv",
       "finsup/AM/archive/FY2015/old.csv",
       "finsup/FY2015/root.csv",
       "finsup/GL/FY2015/b.csv",
       "finsup2/AM/FY2015/d.csv",
       "other/AM/FY2015/c.csv" >>

\* the dataset's tables in the order the catalogue query returns them: has
\* the table a column fy_partition, and the fiscal years it holds rows of
BqCatalogue ==
    << [ table |-> "ps_jrnl_ln", fy_column |-> TRUE,  years |-> { 2015, 2016 } ],
       [ table |-> "ps_ledger",  fy_column |-> TRUE,  years |-> { 2016 } ],
       [ table |-> "ps_vendor",  fy_column |-> FALSE, years |-> { } ] >>

BqRows0 ==
    [ t \in { BqCatalogue[i].table : i \in 1..Len(BqCatalogue) } |->
        BqCatalogue[CHOOSE i \in 1..Len(BqCatalogue) : BqCatalogue[i].table = t].years ]

\* lines 59-65: the tables with a column fy_partition
list_tables_with_fy ==
    LET hit == SelectSeq(BqCatalogue, LAMBDA c : c.fy_column)
    IN  [ i \in 1..Len(hit) |-> hit[i].table ]

\* lines 80-85
build_prefix(root, module, year) ==
    IF module = "*" THEN root \o "/"
    ELSE root \o "/" \o module \o "/FY" \o ToString(year) \o "/"

\* bucket.list_blobs(prefix = prefix) on the objects the bucket holds
list_blobs(held, prefix) ==
    SelectSeq(BucketListing, LAMBDA n : n \in held /\ StartsWith(n, prefix))

\* lines 92-96: the objects delete_objects goes on with
Matched(held, prefix, year, module) ==
    IF module = "*"
    THEN SelectSeq(list_blobs(held, prefix),
                   LAMBDA n : Contains("/FY" \o ToString(year) \o "/", n))
    ELSE list_blobs(held, prefix)

\* lines 117-137: parse_args and the plan printed.  --files-only and
\* --tables-only exclude each other: argparse prints the usage, status 2.
ParseArgs ==
    /\ pc = "fy_args"
    /\ IF args.files_only /\ args.tables_only
       THEN /\ pc' = "exited"
            /\ failed_at' = "fy_args"
            /\ exit_status' = Some(2)
            /\ exit_msg' = [ kind |-> "usage", names |-> << >> ]
       ELSE Goto("fy_prompt")
    /\ UNCHANGED << tempoVars, fyVars, scopeVars >>

\* lines 47-55 and 139-140, one input(): yes goes on, no exits with
\* "Aborted by user.", anything else asks again; at end of input, input()
\* raises EOFError
PromptYesNo ==
    /\ pc = "fy_prompt"
    /\ \/ /\ Len(answers) < MaxAnswers
          /\ \E line \in StdinLines :
               LET ans == StrLower(Strip(line))
               IN  /\ answers' = Append(answers, line)
                   /\ IF IsYes(ans) THEN Goto("fy_files")
                      ELSE IF IsNo(ans)
                      THEN SysExit("fy_prompt", "Aborted by user.", << >>)
                      ELSE Goto("fy_prompt")
       \/ /\ Raise("fy_prompt")
          /\ UNCHANGED answers
    /\ UNCHANGED << tempoVars, args, bucket, blobs, gcs_calls, tables, bq_jobs,
                    bq_rows, scopeVars >>

\* lines 143-108: the files section up to the delete loop.  Skipped with
\* --tables-only; nothing matched or --dry-run returns before any delete.
DeleteObjects ==
    /\ pc = "fy_files"
    /\ IF args.tables_only
       THEN /\ blobs' = << >>
            /\ Goto("fy_tables")
       ELSE LET prefix == build_prefix(args.root, args.module, args.year)
                found  == Matched(bucket, prefix, args.year, args.module)
            IN  IF found = << >> \/ args.dry_run
                THEN /\ blobs' = << >>
                     /\ Goto("fy_tables")
                ELSE /\ blobs' = found
                     /\ Goto("fy_deleting")
    /\ UNCHANGED << tempoVars, args, answers, bucket, gcs_calls, tables,
                    bq_jobs, bq_rows, scopeVars >>

\* lines 110-111, one turn of the loop: blob.delete() removes the object or
\* raises
BlobDelete ==
    /\ pc = "fy_deleting"
    /\ \E ok \in BOOLEAN :
         /\ gcs_calls' = Append(gcs_calls, [ name |-> Head(blobs), ok |-> ok ])
         /\ IF ok
            THEN /\ bucket' = bucket \ { Head(blobs) }
                 /\ blobs' = Tail(blobs)
                 /\ Goto(IF Tail(blobs) = << >> THEN "fy_tables" ELSE "fy_deleting")
            ELSE /\ Raise("fy_deleting")
                 /\ UNCHANGED << bucket, blobs >>
    /\ UNCHANGED << tempoVars, args, answers, tables, bq_jobs, bq_rows,
                    scopeVars >>

\* lines 150-153: the tables section up to its loop.  Skipped with
\* --files-only; the catalogue query runs in a dry run too.
ListTables ==
    /\ pc = "fy_tables"
    /\ IF args.files_only
       THEN /\ Goto("fy_done")
            /\ UNCHANGED << tables, bq_jobs >>
       ELSE \E ok \in BOOLEAN :
              /\ bq_jobs' = Append(bq_jobs, [ kind |-> "SELECT", table |-> "",
                                              year |-> args.year, ok |-> ok ])
              /\ IF ok
                 THEN /\ tables' = list_tables_with_fy
                      /\ Goto(IF list_tables_with_fy = << >> THEN "fy_done"
                              ELSE "fy_table_loop")
                 ELSE /\ Raise("fy_tables")
                      /\ UNCHANGED tables
    /\ UNCHANGED << tempoVars, args, answers, bucket, blobs, gcs_calls,
                    bq_rows, scopeVars >>

\* lines 154-156 and 67-76, one table: a dry run prints the statement; else
\* the DELETE job removes the year's rows or raises
DeleteYearFromTable ==
    /\ pc = "fy_table_loop"
    /\ LET t    == Head(tables)
           next == IF Tail(tables) = << >> THEN "fy_done" ELSE "fy_table_loop"
       IN  IF args.dry_run
           THEN /\ tables' = Tail(tables)
                /\ Goto(next)
                /\ UNCHANGED << bq_jobs, bq_rows >>
           ELSE \E ok \in BOOLEAN :
                  /\ bq_jobs' = Append(bq_jobs, [ kind |-> "DELETE", table |-> t,
                                                  year |-> args.year, ok |-> ok ])
                  /\ IF ok
                     THEN /\ bq_rows' = [ bq_rows EXCEPT ![t] = @ \ { args.year } ]
                          /\ tables' = Tail(tables)
                          /\ Goto(next)
                     ELSE /\ Raise("fy_table_loop")
                          /\ UNCHANGED << bq_rows, tables >>
    /\ UNCHANGED << tempoVars, args, answers, bucket, blobs, gcs_calls,
                    scopeVars >>

\* -------------------------------------------------- normalize_scope
Digits == { "0", "1", "2", "3", "4", "5", "6", "7", "8", "9" }

\* str.isdigit(), on ASCII
IsDigit(s) == s # "" /\ \A i \in 1..Len(s) : SubSeq(s, i, i) \in Digits

\* src/findpermission.py lines 38-44
normalize_scope(id) ==
    IF \/ StartsWith(id, "projects/")
       \/ StartsWith(id, "folders/")
       \/ StartsWith(id, "organizations/")
    THEN id
    ELSE IF IsDigit(id) /\ Len(id) = 12 THEN "folders/" \o id
    ELSE "projects/" \o id

\* src/service_acct_fin_permisson.py lines 33-39
normalize_scope_sa(id) ==
    IF \/ StartsWith(id, "projects/")
       \/ StartsWith(id, "folders/")
       \/ StartsWith(id, "organizations/")
    THEN id
    ELSE IF IsDigit(id) /\ Len(id) = 12 THEN "folders/" \o id
    ELSE "projects/" \o id

\* findpermission.py line 92
NormalizeScope ==
    /\ pc = "scope"
    /\ scope_out' = Some([ script |-> "findpermission",
                           scope  |-> normalize_scope(scope_in.raw) ])
    /\ pc' = "scope_done"
    /\ UNCHANGED << failed_at, exit_status, exit_msg, tempoVars, fyVars,
                    scope_in >>

\* service_acct_fin_permisson.py line 76
NormalizeScopeSA ==
    /\ pc = "scope"
    /\ scope_out' = Some([ script |-> "service_acct_fin_permisson",
                           scope  |-> normalize_scope_sa(scope_in.raw) ])
    /\ pc' = "scope_done"
    /\ UNCHANGED << failed_at, exit_status, exit_msg, tempoVars, fyVars,
                    scope_in >>

\* ------------------------------------------------------- specifications
\* TEAM_FILTER values tried
TeamFilters == { NA, Some(<< "F", "I" >>) }

\* everything but the inputs, as the interpreter starts
Fresh ==
    /\ failed_at = ""
    /\ exit_status = NA
    /\ exit_msg = [ kind |-> "", names |-> << >> ]
    /\ reqs = << >>
    /\ offset = 0
    /\ logs = << >>
    /\ row_i = 1
    /\ users = << >>
    /\ name_cache = << >>
    /\ df_flat = NA
    /\ url_i = 1
    /\ meta_rows = << >>
    /\ merged = NA
    /\ util = NA
    /\ excel_engine = ""
    /\ xlsx = "absent"
    /\ parquet = "absent"
    /\ buckets_out = NA

\* clean_fy not run
FyIdle ==
    /\ args = [ root |-> "finsup", module |-> "*", year |-> 2015,
                files_only |-> FALSE, tables_only |-> FALSE, dry_run |-> TRUE ]
    /\ answers = << >>
    /\ bucket = Range(BucketListing)
    /\ blobs = << >>
    /\ gcs_calls = << >>
    /\ tables = << >>
    /\ bq_jobs = << >>
    /\ bq_rows = BqRows0

\* normalize_scope not run
ScopeIdle ==
    /\ scope_in = [ raw |-> "my-project-id", kind |-> "project" ]
    /\ scope_out = NA

\* The whole run.  The environment is any assignment of REQ; the remote
\* total, the page size and TEAM_FILTER vary once the configuration passes.
Init ==
    /\ pc = "import"
    /\ environ \in [ Range(REQ) -> EnvValues ]
    /\ team_filter \in TeamFilters
    /\ count \in 0..MaxCount
    /\ page \in 1..MaxPage
    /\ environ = AllSet \/ (team_filter = NA /\ count = 0 /\ page = 1)
    /\ raw = << >>
    /\ labels_in = NA
    /\ Fresh
    /\ FyIdle
    /\ ScopeIdle

Next ==
    \/ ImportModule
    \/ Main
    \/ ReadWebhook
    \/ JiraProjectId
    \/ PagedGet
    \/ FlattenRow
    \/ FlattenDone
    \/ MetaFromUrls
    \/ Enrich
    \/ PickEngine
    \/ WriteExcel
    \/ WriteParquet

Spec == Init /\ [][Next]_vars

\* flatten on its own: the run stands at the call of flatten in webhook mode
\* (no request issued yet) with any list of raw records of the pool
P_Empty == << >>
P_Full  == RawA(1)
P_Blank == [ f \in { "author.displayName", "author.accountId", "startDate" } |->
             CASE f = "author.displayName" -> "  "
               [] f = "author.accountId"   -> "acc-bob"
               [] OTHER                    -> [ y |-> 2024, m |-> 6, d |-> 16 ] ]
P_Bob   == RawB(2, 7200, 10)
P_Eve   == [ f \in { "author.accountId", "timeSpentSeconds" } |->
             IF f = "author.accountId" THEN "acc-eve" ELSE 900 ]

RawPool == { P_Empty, P_Full, P_Blank, P_Bob, P_Eve }

InitFlatten ==
    /\ pc = "flatten"
    /\ environ = AllSet
    /\ team_filter = NA
    /\ count = 0
    /\ page = 1
    /\ raw \in SeqsUpTo(RawPool, MaxRaw)
    /\ labels_in = NA
    /\ Fresh
    /\ FyIdle
    /\ ScopeIdle

NextFlatten == FlattenRow \/ FlattenDone

SpecFlatten == InitFlatten /\ [][NextFlatten]_vars

\* flatten on a list naming more accounts than the cache holds: one record
\* of an account Jira knows, then n records of n further accounts, then the
\* first record again
AccountOnly(acc) == [ f \in { "author.accountId" } |-> acc ]

ManyAccounts(n) == [ i \in 1..n |-> AccountOnly("acc-" \o ToString(i)) ]

LruInputs ==
    { << p >> \o ManyAccounts(n) \o << p >> :
        p \in { P_Eve }, n \in { LruMaxSize - 1, LruMaxSize } }

InitLru ==
    /\ pc = "flatten"
    /\ environ = AllSet
    /\ team_filter = NA
    /\ count = 0
    /\ page = 1
    /\ raw \in LruInputs
    /\ labels_in = NA
    /\ Fresh
    /\ FyIdle
    /\ ScopeIdle

NextLru == FlattenRow \/ FlattenDone

SpecLru == InitLru /\ [][NextLru]_vars

\* flatten, meta_from_urls and enrich on any list of dated records of a pool:
\* every day from Monday 2024-06-10 to Monday 2024-06-17 on issue 10001, a
\* record reaching issue 10001 by its second address, a record without
\* issue.self, a record without issue.id, and a day before 1970
Dated(user, y, m, d, secs) ==
    [ f \in { "author.displayName", "startDate", "timeSpentSeconds" } |->
        CASE f = "author.displayName" -> user
          [] f = "startDate"          -> [ y |-> y, m |-> m, d |-> d ]
          [] OTHER                    -> secs ]

OnIssue(url, id) ==
    [ f \in { "issue.self", "issue.id" } |-> IF f = "issue.self" THEN url ELSE id ]

D_Alias  == Dated("Alice A", 2024, 6, 16, 7200) @@ OnIssue(URL_D, 10001)
D_NoUrl  == Dated("Bob B", 2024, 6, 10, 1800) @@ [ f \in { "issue.id" } |-> 10002 ]
D_NoId   == Dated("Bob B", 2025, 1, 1, 1800) @@ [ f \in { "issue.self" } |-> URL_B ]
D_Old    == Dated("Alice A", 1969, 12, 28, 2520) @@ OnIssue(URL_C, 10003)

DatedPool ==
    { Dated("Alice A", 2024, 6, d, 3600) @@ OnIssue(URL_A, 10001) : d \in 10..17 }
        \cup { D_Alias, D_NoUrl, D_NoId, D_Old }

InitEnrich ==
    /\ pc = "flatten"
    /\ environ = AllSet
    /\ team_filter \in TeamFilters
    /\ count = 0
    /\ page = 1
    /\ raw \in SeqsUpTo(DatedPool, MaxRaw)
    /\ labels_in = NA
    /\ Fresh
    /\ FyIdle
    /\ ScopeIdle

NextEnrich == FlattenRow \/ FlattenDone \/ MetaFromUrls \/ Enrich

SpecEnrich == InitEnrich /\ [][NextEnrich]_vars

\* label_to_buckets on its own: any list of at most MaxLabels labels of the
\* pool, or an argument that is not a list
LabelPool == { L_Meeting, L_BAU, L_bau, L_Enhancement, L_audit, L_holiday,
               L_holidays, L_Vacation, L_misc }

LabelInputs == { NA } \cup { Some(ls) : ls \in SeqsUpTo(LabelPool, MaxLabels) }

ApplyLabels ==
    /\ pc = "labels"
    /\ buckets_out' = Some(label_to_buckets(labels_in))
    /\ pc' = "labels_done"
    /\ UNCHANGED << failed_at, exit_status, exit_msg, cfgVars, reqs, pageVars,
                    flatVars, metaVars, enrVars, outVars, labels_in, fyVars,
                    scopeVars >>

InitLabels ==
    /\ pc = "labels"
    /\ environ = AllSet
    /\ team_filter = NA
    /\ count = 0
    /\ page = 1
    /\ raw = << >>
    /\ labels_in \in LabelInputs
    /\ Fresh
    /\ FyIdle
    /\ ScopeIdle

NextLabels == ApplyLabels

SpecLabels == InitLabels /\ [][NextLabels]_vars

\* one run of clean_fy: any command line over the modules and years below,
\* against the bucket listing and the table catalogue
FyModules == { "*", "AM", "GL", "static" }
FyYears == { 2015, 2016 }

FyArgs ==
    [ root : { "finsup" }, module : FyModules, year : FyYears,
      files_only : BOOLEAN, tables_only : BOOLEAN, dry_run : BOOLEAN ]

InitCleanFy ==
    /\ pc = "fy_args"
    /\ environ = AllSet
    /\ team_filter = NA
    /\ count = 0
    /\ page = 1
    /\ raw = << >>
    /\ labels_in = NA
    /\ Fresh
    /\ args \in FyArgs
    /\ answers = << >>
    /\ bucket = Range(BucketListing)
    /\ blobs = << >>
    /\ gcs_calls = << >>
    /\ tables = << >>
    /\ bq_jobs = << >>
    /\ bq_rows = BqRows0
    /\ ScopeIdle

NextCleanFy ==
    \/ ParseArgs
    \/ PromptYesNo
    \/ DeleteObjects
    \/ BlobDelete
    \/ ListTables
    \/ DeleteYearFromTable

SpecCleanFy == InitCleanFy /\ [][NextCleanFy]_vars

\* normalize_scope on its own: scope ids with what they name, bare or
\* already prefixed
BareScopes ==
    { [ raw |-> "my-project-id",        kind |-> "project" ],
      [ raw |-> "cig-accounting-dev-1", kind |-> "project" ],
      [ raw |-> "p123456789012",        kind |-> "project" ],
      [ raw |-> "projects",             kind |-> "project" ],
      [ raw |-> "folders-1",            kind |-> "project" ],
      [ raw |-> "tu-finance-prod",      kind |-> "project" ],
      [ raw |-> "organizations",        kind |-> "project" ],
      [ raw |-> "123456789012",         kind |-> "folder" ],
      [ raw |-> "000000000001",         kind |-> "folder" ],
      [ raw |-> "876543210987",         kind |-> "organization" ] }

ScopePrefix(kind) ==
    CASE kind = "project" -> "projects/"
      [] kind = "folder"  -> "folders/"
      [] OTHER            -> "organizations/"

ScopeInputs ==
    BareScopes
        \cup { [ raw |-> ScopePrefix(k) \o b.raw, kind |-> k ] :
                 b \in BareScopes, k \in { "project", "folder", "organization" } }

InitScope ==
    /\ pc = "scope"
    /\ environ = AllSet
    /\ team_filter = NA
    /\ count = 0
    /\ page = 1
    /\ raw = << >>
    /\ labels_in = NA
    /\ Fresh
    /\ FyIdle
    /\ scope_in \in ScopeInputs
    /\ scope_out = NA

NextScope == NormalizeScope \/ NormalizeScopeSA

SpecScope == InitScope /\ [][NextScope]_vars

\* ============================================================ properties
IssueReqs  == SelectSeq(reqs, LAMBDA q : q.ep = "issue")
PageReqs   == SelectSeq(reqs, LAMBDA q : q.ep = "worklogs")
Aborted    == pc \in { "raised", "exited" }
EnrichOver == pc \in { "engine", "excel", "parquet", "done" }
                 \/ failed_at \in { "enrich", "engine", "excel", "parquet" }

RECURSIVE ExactSum(_)
\* the exact (unrounded) sum of the float64 values of the function f
ExactSum(f) ==
    IF DOMAIN f = {} THEN F64Zero
    ELSE LET x == CHOOSE y \in DOMAIN f : TRUE
         IN  ExactAdd(f[x], ExactSum([ y \in DOMAIN f \ { x } |-> f[y] ]))

\* hours of the enriched records of user u in week w, summed exactly
EnrichedHours(u, w) ==
    LET rows == Val(merged)
        idx  == { i \in 1..Len(rows) : /\ rows[i]["user"] = u
                                       /\ rows[i]["week"] = Some(w)
                                       /\ ~IsNA(rows[i]["hours"]) }
    IN  ExactSum([ i \in idx |-> Val(rows[i]["hours"]) ])

\* hours of the utilisation rows of user u in week w, summed exactly
UtilHours(u, w) ==
    LET rows == { r \in Val(util) : r.user = u /\ r.week = w }
    IN  ExactSum([ r \in rows |-> r.hours ])

\* C1: once enrich has returned, for every user and week the hours of the
\* utilisation rows add up to the hours of the enriched records of that user
\* and week, records without metadata (null project_key) included.
C1_AggregationPreservesHours ==
    (~IsNA(merged) /\ ~IsNA(util)) =>
        \A i \in 1..Len(Val(merged)) :
            LET u == Val(merged)[i]["user"]
                w == Val(Val(merged)[i]["week"])
            IN  UtilHours(u, w) = EnrichedHours(u, w)

\* C2: an HTTP error on a per-issue request never aborts the run: every url
\* is still requested in order, meta holds exactly the issues that answered,
\* and (TEAM_FILTER unset) enrich does not raise whatever subset failed.
C2_MetaErrorNeverAborts ==
    /\ Len(IssueReqs) = url_i - 1
    /\ \A i \in 1..Len(IssueReqs) : IssueReqs[i].key = Urls[i]
    /\ meta_rows = [ k \in 1..Len(SelectSeq(IssueReqs, LAMBDA q : q.ok)) |->
                       MetaRow(IssueDB[SelectSeq(IssueReqs, LAMBDA q : q.ok)[k].key]) ]
    /\ (team_filter = NA /\ \E i \in 1..Len(IssueReqs) : ~IssueReqs[i].ok)
          => failed_at # "enrich"

\* C3: once enrich is over (TEAM_FILTER unset), every flattened record whose
\* issue lookup failed is a row of the enriched output with module, area,
\* category and sub_category all "Unknown".
C3_FailedLookupRowUnknown ==
    (EnrichOver /\ team_filter = NA) =>
        \A i \in 1..Len(Val(df_flat).rows) :
            LET row == Val(df_flat).rows[i]
            IN  (\E q \in Range(IssueReqs) :
                    ~q.ok /\ Some(q.key) = row["issue_url"])
                => /\ ~IsNA(merged)
                   /\ \E j \in 1..Len(Val(merged)) :
                        LET e == Val(merged)[j]
                        IN  /\ e["worklog_id"] = row["worklog_id"]
                            /\ e["module"] = "Unknown"
                            /\ e["area"] = "Unknown"
                            /\ e["category"] = "Unknown"
                            /\ e["sub_category"] = "Unknown"

\* C4 as stated: whenever the run has failed or been aborted, at whatever
\* stage, neither output file has been written.
C4_AbortedRunNoOutput ==
    Aborted => (xlsx = "absent" /\ parquet = "absent")

\* C4 amended: a run that fails or exits before the output stage (anywhere up
\* to and including the choice of the Excel engine) has written neither file;
\* the workbook exists only once enrich has returned, and the parquet file
\* only once the workbook is complete.
C4_NoOutputBeforeFinalStage ==
    /\ (Aborted /\ failed_at \notin { "excel", "parquet" })
          => (xlsx = "absent" /\ parquet = "absent")
    /\ xlsx # "absent"
          => /\ ~IsNA(util) /\ ~IsNA(merged)
             /\ pc \in { "parquet", "done" } \/ failed_at \in { "excel", "parquet" }
    /\ parquet # "absent"
          => /\ xlsx = "written"
             /\ pc = "done" \/ failed_at = "parquet"

\* C4 witness: enrich has returned, no Excel engine imports, the run exits
C4_Witness ==
    /\ pc = "exited" /\ failed_at = "engine"
    /\ ~IsNA(merged)
    /\ xlsx = "absent" /\ parquet = "absent"

\* C5: with every response a 2xx, paged_get requests offsets 0, P, 2P, ...,
\* goes on only after a response with offset + P < count, stops after the
\* first one with offset + P >= count, and has then yielded the count
\* records once each in offset order.
C5_PagedGetExactlyOnce ==
    LET k == Len(PageReqs)
    IN  (k > 0 /\ \A i \in 1..k : PageReqs[i].ok) =>
            /\ \A i \in 1..k : PageReqs[i].off = (i - 1) * page
            /\ \A i \in 1..(k - 1) : (i - 1) * page + page < count
            /\ logs = Worklogs(Min(count, k * page))
            /\ pc = "paging" => (k - 1) * page + page < count
            /\ pc # "paging" => /\ (k - 1) * page + page >= count
                                /\ logs = Worklogs(count)
                                /\ raw = logs

\* C5 witness: three records fetched in two or more pages
C5_Witness ==
    /\ pc = "flatten" /\ count = 3
    /\ Len(PageReqs) >= 2 /\ \A i \in 1..Len(PageReqs) : PageReqs[i].ok
    /\ logs = Worklogs(3)

\* C6: a non-2xx answer to the project lookup or to a page of the bulk fetch
\* is the last request of the run: the run has stopped with an error, flatten
\* was never called and nothing was written.
C6_LookupOrPageErrorIsFatal ==
    \A i \in 1..Len(reqs) :
        (reqs[i].ep \in { "project", "worklogs" } /\ ~reqs[i].ok) =>
            /\ i = Len(reqs)
            /\ pc = "raised" /\ exit_status = Some(1)
            /\ raw = << >> /\ IsNA(df_flat) /\ IsNA(merged)
            /\ xlsx = "absent" /\ parquet = "absent"

\* C6 witness: a later page fails after an earlier page was yielded
C6_Witness ==
    /\ pc = "raised" /\ failed_at = "paging"
    /\ Len(logs) > 0
    /\ ~reqs[Len(reqs)].ok

\* C7: when a required setting is unset or empty the run never gets past the
\* configuration check: no request, no output, and the exit has status 1 and
\* a message naming exactly the missing settings.
C7_MissingConfigExitsFirst ==
    LET lacking == { v \in Range(REQ) : environ[v] \in { "unset", "empty" } }
    IN  lacking # {} =>
            /\ pc \in { "import", "exited" }
            /\ reqs = << >>
            /\ xlsx = "absent" /\ parquet = "absent"
            /\ pc = "exited" => /\ exit_status = Some(1)
                                /\ exit_msg.kind = "missing env vars"
                                /\ Range(exit_msg.names) = lacking

\* C7 witness: the run has exited on a setting that is set but empty
C7_Witness ==
    /\ pc = "exited" /\ failed_at = "import"
    /\ \E v \in Range(REQ) : environ[v] = "empty"
    /\ \E v \in Range(REQ) : environ[v] = "set"

\* the documented rule table, by priority: what a lower-cased label must
\* contain (or, for the last rule, be) and the buckets it gives
RuleHit(k, l) ==
    CASE k = 1 -> Contains(c_enhancement, l)
      [] k = 2 -> Contains(c_bau, l)
      [] k = 3 -> Contains(c_audit, l)
      [] k = 4 -> Contains(c_meeting, l)
      [] OTHER -> l = c_holiday \/ l = c_vacation

RuleBuckets == << << "Enhancement", "." >>, << "BAU", "." >>,
                 << "Admin", "Audit" >>, << "Admin", "Meeting" >>,
                 << "Vacation", "Vacation" >> >>

\* the buckets of the highest-priority rule some label matches
BestRule(labels) ==
    LET hit == { k \in 1..Len(RuleBuckets) :
                    \E i \in 1..Len(labels) : RuleHit(k, Lower(labels[i])) }
    IN  IF hit = {} THEN Unknown2
        ELSE RuleBuckets[CHOOSE k \in hit : \A j \in hit : k <= j]

\* C8: the result of label_to_buckets is the buckets of the highest-priority
\* rule matched by any lower-cased label, ("Unknown", "Unknown") when none
\* matches or the argument is not a list, and every list with the same labels
\* up to order and letter case gets the same result.
C8_FirstMatchingRuleWins ==
    ~IsNA(buckets_out) =>
        /\ IsNA(labels_in) => Val(buckets_out) = Unknown2
        /\ ~IsNA(labels_in) =>
             /\ Val(buckets_out) = BestRule(Val(labels_in))
             /\ \A other \in LabelInputs \ { NA } :
                  { Lower(l) : l \in Range(Val(other)) }
                      = { Lower(l) : l \in Range(Val(labels_in)) }
                  => label_to_buckets(other) = Val(buckets_out)

\* C8 witness: ["Meeting", "BAU"] has been bucketed as ("BAU", ".")
C8_Witness ==
    /\ labels_in = Some(<< L_Meeting, L_BAU >>)
    /\ buckets_out = Some(<< "BAU", "." >>)

\* C9 as stated: flatten does not raise, returns one row per input record,
\* and every column of COL_MAP is a column of the result.
C9_EveryColMapFieldIsAColumn ==
    /\ pc # "raised"
    /\ ~IsNA(df_flat) =>
         /\ Len(Val(df_flat).rows) = Len(raw)
         /\ \A k \in 1..Len(COL_MAP) :
              /\ COL_MAP[k].col \in Range(Val(df_flat).columns)
              /\ \A i \in 1..Len(Val(df_flat).rows) :
                   COL_MAP[k].col \in DOMAIN Val(df_flat).rows[i]

\* C9 amended: flatten does not raise and returns one row per input record
\* (none for the empty list); every column of COL_MAP except user_id, which
\* the user resolution consumes and line 116 drops, is a column of the
\* result, as are hours and billable_hours; a cell is the missing marker
\* exactly where the record lacks the field.
C9_ColMapFieldsButUserId ==
    /\ pc # "raised"
    /\ pc # "flatten" => ~IsNA(df_flat)
    /\ ~IsNA(df_flat) =>
         LET f == Val(df_flat)
         IN  /\ Len(f.rows) = Len(raw)
             /\ "user_id" \notin Range(f.columns)
             /\ { "hours", "billable_hours" } \subseteq Range(f.columns)
             /\ \A k \in 1..Len(COL_MAP) :
                  COL_MAP[k].col # "user_id" =>
                    /\ COL_MAP[k].col \in Range(f.columns)
                    /\ \A i \in 1..Len(raw) :
                         /\ DOMAIN f.rows[i] = Range(f.columns)
                         /\ COL_MAP[k].col # "user" =>
                              (IsNA(f.rows[i][COL_MAP[k].col])
                                 <=> COL_MAP[k].src \notin DOMAIN raw[i])

\* C9 witness: two records flattened, the first carrying no declared field
C9_Witness ==
    /\ ~IsNA(df_flat)
    /\ Len(raw) = 2 /\ raw[1] = P_Empty /\ raw[2] = P_Eve
    /\ Len(Val(df_flat).rows) = 2

\* C10: every resolved user follows the chain: the non-blank display name;
\* else, with an account identifier, the name the lookup gave; else (HTTP
\* error, no name, empty name) the raw identifier; else "Unknown".  No lookup
\* outcome makes flatten raise, and the frame carries the resolved users.
C10_UserFallbackChain ==
    /\ pc # "raised"
    /\ \A i \in 1..Len(users) :
         LET r == raw[i]
         IN  IF "author.displayName" \in DOMAIN r
                /\ r["author.displayName"] \notin { "", " ", "  " }
             THEN users[i] = r["author.displayName"]
             ELSE IF "author.accountId" \in DOMAIN r
             THEN LET acc == r["author.accountId"]
                  IN  /\ CacheHas(name_cache, acc)
                      /\ IF CacheGet(name_cache, acc) \notin { NA, Some("") }
                         THEN users[i] = Val(CacheGet(name_cache, acc))
                         ELSE users[i] = acc
             ELSE users[i] = "Unknown"
    /\ ~IsNA(df_flat) =>
         \A i \in 1..Len(raw) : Val(df_flat).rows[i]["user"] = users[i]

\* C10 witness: a lookup answered with an HTTP error and the row got the raw
\* identifier, while another row got "Unknown"
C10_Witness ==
    /\ ~IsNA(df_flat)
    /\ \E q \in Range(reqs) : q.ep = "user" /\ ~q.ok /\ q.key \in Range(users)
    /\ "Unknown" \in Range(users)

UserReqs == SelectSeq(reqs, LAMBDA q : q.ep = "user")

\* C11: within one run no account identifier is requested from the /user
\* endpoint more than once, however many distinct identifiers the records
\* name and whatever the lookups answered.
C11_OneLookupPerAccount ==
    Cardinality({ q.key : q \in Range(UserReqs) }) = Len(UserReqs)

\* the group-by key a utilisation row stands for
UtilKey(u) ==
    [ area |-> u.area, project_key |-> Some(u.project_key),
      module |-> u.module, category |-> u.category,
      sub_category |-> u.sub_category, user |-> u.user,
      week |-> Some(u.week) ]

\* the hours of the enriched rows with key k, summed exactly
KeyHoursExact(k) ==
    LET m == Val(merged)
    IN  ExactSum([ i \in { j \in 1..Len(m) : KeyOf(m[j]) = k } |->
                     IF IsNA(m[i]["hours"]) THEN F64Zero ELSE Val(m[i]["hours"]) ])

\* C12: the utilisation table has exactly one row per key tuple (area,
\* project_key, module, category, sub_category, user, week) occurring among
\* the enriched records: no two rows share a key, every key of an enriched
\* record has a row, and a row's hours is the sum of its records' hours
\* (the float64 nearest to their exact sum).
C12_OneUtilRowPerKey ==
    ~IsNA(util) =>
        /\ \A u1, u2 \in Val(util) : UtilKey(u1) = UtilKey(u2) => u1 = u2
        /\ \A i \in 1..Len(Val(merged)) :
              \E u \in Val(util) : UtilKey(u) = KeyOf(Val(merged)[i])
        /\ \A u \in Val(util) :
              u.hours = Round53(KeyHoursExact(UtilKey(u)))

\* 2024-06-10 was a Monday
IsMonday(day) == (day - DaysFromCivil(2024, 6, 10)) % 7 = 0

\* C13: the week enrich assigns to a record dated d is the Monday that
\* begins the Monday-to-Sunday week holding d: a Monday, not after d, at
\* most 6 days before d; Wednesday 2024-06-12 gives 2024-06-10.
C13_WeekIsMondayOfIsoWeek ==
    ~IsNA(merged) =>
        \A i \in 1..Len(Val(merged)) :
            LET d == Val(Val(merged)[i]["date"])
                w == Val(Val(merged)[i]["week"])
            IN  /\ IsMonday(w)
                /\ w <= d
                /\ d - w <= 6
                /\ d = DaysFromCivil(2024, 6, 12) => w = DaysFromCivil(2024, 6, 10)

\* C13 witness: enrich returned a record dated on a Sunday with the Monday
\* six days earlier, and a record dated on a Monday with that same day
C13_Witness ==
    /\ ~IsNA(merged)
    /\ \E i, j \in 1..Len(Val(merged)) :
          LET a == Val(merged)[i]
              b == Val(merged)[j]
          IN  /\ IsMonday(Val(a["date"]) + 1)
              /\ Val(a["week"]) = Val(a["date"]) - 6
              /\ IsMonday(Val(b["date"]))
              /\ Val(b["week"]) = Val(b["date"])

\* C17: with TEAM_FILTER unset, the frame enrich returns has exactly one row
\* per flattened record, in the same order and with the record's own cells:
\* the join on issue_id neither drops nor repeats a record, whatever the
\* issue requests answered.
C17_JoinKeepsEachRecordOnce ==
    (~IsNA(merged) /\ IsNA(team_filter)) =>
        LET flat == Val(df_flat).rows
            out  == Val(merged)
        IN  /\ Len(out) = Len(flat)
            /\ \A i \in 1..Len(flat) :
                  \A c \in Range(FlatColumns) : out[i][c] = flat[i][c]

\* the lines that mean yes and the lines that mean no, among StdinLines
YesLines == { "y", "yes", " Y " }
NoLines  == { "n", "NO" }

RowDeletes == SelectSeq(bq_jobs, LAMBDA j : j.kind = "DELETE")

\* C14: clean_fy issues a destructive call (blob.delete() or a DELETE job)
\* only after the prompt was answered yes and never in a dry run; no object
\* delete with --tables-only, no row delete with --files-only; an answer of
\* no ends the run at once with nothing deleted.
C14_DestructiveOnlyWhenAuthorised ==
    /\ (gcs_calls # << >> \/ RowDeletes # << >>) =>
            /\ answers # << >>
            /\ answers[Len(answers)] \in YesLines
            /\ ~args.dry_run
    /\ gcs_calls # << >> => ~args.tables_only
    /\ RowDeletes # << >> => ~args.files_only
    /\ (answers # << >> /\ answers[Len(answers)] \in NoLines) =>
            /\ pc = "exited"
            /\ exit_msg.kind = "Aborted by user."
            /\ gcs_calls = << >>
            /\ RowDeletes = << >>
            /\ bucket = Range(BucketListing)
            /\ bq_rows = BqRows0
    /\ (args.dry_run \/ answers = << >>) =>
            bucket = Range(BucketListing) /\ bq_rows = BqRows0

\* C14 witness: a run answered yes after one unusable line has deleted an
\* object and a year's rows and has come to its end
C14_Witness ==
    /\ pc = "fy_done"
    /\ Len(answers) = 2
    /\ \E i \in 1..Len(gcs_calls) : gcs_calls[i].ok
    /\ \E i \in 1..Len(RowDeletes) : RowDeletes[i].ok
    /\ bq_rows # BqRows0

\* the folders directly below the root
TopModules == { "AM", "GL", "static" }

\* the name is <root>/<module>/FY<year>/... for one top-level module, the
\* given one unless it is "*"
UnderPattern(n, root, module, year) ==
    \E m \in TopModules :
        /\ module \in { "*", m }
        /\ StartsWith(n, root \o "/" \o m \o "/FY" \o ToString(year) \o "/")

\* C15: every object clean_fy deletes is named <root>/<module>/FY<year>/...
\* with <module> one folder directly below <root>; objects of other years,
\* outside <root>, or with FY<year> deeper than directly below the module
\* folder are never deleted.
C15_DeletesOnlyUnderPattern ==
    \A i \in 1..Len(gcs_calls) :
        gcs_calls[i].ok =>
            UnderPattern(gcs_calls[i].name, args.root, args.module, args.year)

\* the scope the id stands for
RightScope(in) ==
    IF \E k \in { "project", "folder", "organization" } :
           StartsWith(in.raw, ScopePrefix(k))
    THEN in.raw
    ELSE ScopePrefix(in.kind) \o in.raw

\* C16: normalize_scope returns an already prefixed id unchanged and
\* prepends projects/ to a project id, folders/ to a folder id and
\* organizations/ to an organisation id.
C16_RightPrefix ==
    ~IsNA(scope_out) => Val(scope_out).scope = RightScope(scope_in)

=============================================================================
